---- MODULE Spec2Model ----
(***************************************************************************)
(* Model of src/server.js, the "Alice Starter API": an express application *)
(* whose whole state is seven module-level in-memory stores.  Every route  *)
(* handler is synchronous and runs to completion, so one request is one    *)
(* atomic action.  Besides the stores the state holds the wall clock read  *)
(* by now() and by jsonwebtoken, the tokens handed out to clients, and the *)
(* last response sent (tagged with the route that sent it).                *)
(*                                                                         *)
(* JavaScript values: `undefined` (an omitted JSON field or header) and    *)
(* `null` are the strings Undefined and Null; request headers and string   *)
(* body fields are strings.  Numeric body fields that may be omitted are   *)
(* modelled by the presence of the field in the body record.               *)
(* Time is counted in whole hours.                                         *)
(***************************************************************************)
EXTENDS Integers, Naturals, Sequences, FiniteSets, TLC

VARIABLES
    businesses,  \* businessId -> [name, industry, timezone]   (own properties)
    bookings,    \* sequence of booking records
    leads,       \* sequence of lead records
    staff,       \* sequence of staff records
    attendance,  \* sequence of attendance events
    overtime,    \* sequence of overtime requests
    faqs,        \* businessId -> sequence of [q, a]           (own properties)
    clock,       \* the wall clock, in hours
    issued,      \* the tokens clients hold (returned by successful logins)
    res          \* the last response sent: [route, status, body]

stores == <<businesses, bookings, leads, staff, attendance, overtime, faqs>>
vars == <<businesses, bookings, leads, staff, attendance, overtime, faqs,
          clock, issued, res>>

---------------------------------------------------------------------------
(* Bounds of the model *)
\* businesses created and records appended to staff, bookings, leads,
\* attendance and overtime, all together
MaxCreated == 4
\* tokens held by clients
MaxTokens == 1
\* the clock is sampled every ClockStep hours, up to MaxClock
ClockStep == 4
MaxClock == 8

---------------------------------------------------------------------------
(* JavaScript values *)
Undefined == "undefined"
Null == "null"
\* x || d
OrElse(x, d) == IF x \in {Undefined, Null, ""} THEN d ELSE x

\* The property names every plain object inherits from Object.prototype;
\* obj[k] is a function (truthy) for each of them.  "constructor" stands
\* for all of them ("toString", "valueOf", "hasOwnProperty", ...).
ObjectPrototypeKeys == {"constructor"}

\* {}
EmptyObject == [k \in {} |-> Undefined]
\* obj[id] = value
Put(obj, id, value) == [k \in DOMAIN obj \cup {id} |-> IF k = id THEN value ELSE obj[k]]
\* obj[k] is truthy: k is an own property (every stored value is an object
\* or an array) or a name inherited from Object.prototype
Truthy(obj, k) == k \in DOMAIN obj \/ k \in ObjectPrototypeKeys

\* a faulty variant, for comparison: the generator repeats itself
uuidRepeated(store, n) == store \o "-1"

\* uuid(): a fresh opaque identifier.  Identifiers are only ever compared
\* for equality, so the n-th identifier generated for a store is named
\* after the store and n.
uuid(store, n) == store \o "-" \o ToString(n)

\* now(): the clock reading
now == clock

JWT_SECRET == "dev-secret-change-me"
OtherSecret == "another-secret"
\* expiresIn: "8h"
ExpiresIn == 8

---------------------------------------------------------------------------
(* jsonwebtoken: HS256 tokens.  The signature is a MAC of the payload      *)
(* under the secret: equal exactly when payload and secret are equal.      *)
HS256(payload, secret) == <<payload, secret>>

\* jwt.sign(claims, secret, {expiresIn: "8h"}) adds iat and exp
jwtSign(claims, secret, t) ==
    LET payload == [staffId |-> claims.staffId, businessId |-> claims.businessId,
                    role |-> claims.role, iat |-> t, exp |-> t + ExpiresIn]
    IN  [payload |-> payload, sig |-> HS256(payload, secret)]

MalformedToken == [garbage |-> TRUE]

\* a faulty variant, for comparison: the signature is not checked
jwtVerifyUnsigned(token, secret, t) ==
    "payload" \in DOMAIN token /\ t < token.payload.exp

\* a faulty variant, for comparison: a token is still accepted at the instant it expires
jwtVerifyLate(token, secret, t) ==
    /\ "payload" \in DOMAIN token
    /\ token.sig = HS256(token.payload, secret)
    /\ t <= token.payload.exp

\* jwt.verify(token, secret) returns the payload, or throws when the token
\* is malformed, the signature does not match or the token has expired
\* (now >= exp).
jwtVerifyOk(token, secret, t) ==
    /\ "payload" \in DOMAIN token
    /\ token.sig = HS256(token.payload, secret)
    /\ t < token.payload.exp

---------------------------------------------------------------------------
Init ==
    /\ businesses = EmptyObject
    /\ bookings = <<>>
    /\ leads = <<>>
    /\ staff = <<>>
    /\ attendance = <<>>
    /\ overtime = <<>>
    /\ faqs = EmptyObject
    /\ clock = 0
    /\ issued = {}
    /\ res = [route |-> "none", status |-> 0, body |-> [none |-> Undefined]]

---------------------------------------------------------------------------
(* Responses and gates *)
Json(route, status, body) == [route |-> route, status |-> status, body |-> body]
Unauthorized(route, msg) == Json(route, 401, [error |-> msg])
BadBiz(route) == Unauthorized(route, "Missing or invalid X-Business-Id")

\* requireBiz passes: !(!bid || !businesses[bid])
requireBiz(bid) == bid \notin {Undefined, ""} /\ Truthy(businesses, bid)

\* requireStaff passes: the header is present and jwt.verify does not throw
\* (the header is <<>> when absent, <<token>> for "Bearer " + token)
requireStaff(auth) == auth # <<>> /\ jwtVerifyOk(auth[1], JWT_SECRET, clock)
\* the 401 of requireStaff
BadAuth(route, auth) ==
    Unauthorized(route, IF auth = <<>> THEN "Missing Authorization" ELSE "Invalid token")
\* req.user
user(auth) == auth[1].payload

\* businesses and records created so far
Created ==
    Cardinality(DOMAIN businesses) + Len(staff) + Len(bookings) + Len(leads)
    + Len(attendance) + Len(overtime)

\* What a client can send as X-Business-Id: nothing, a registered id or an
\* id that was never registered ...
TenantHeaders == {Undefined, "biz-unknown"} \cup DOMAIN businesses
\* ... or any other string, such as a name of Object.prototype
BizHeaders == TenantHeaders \cup ObjectPrototypeKeys

\* What a client can send as a bearer token: a token it was issued, the same
\* claims signed with another secret, an issued token with altered claims
\* and the old signature, or garbage
PresentableTokens ==
    issued
    \cup {[payload |-> t.payload, sig |-> HS256(t.payload, OtherSecret)] : t \in issued}
    \cup {[payload |-> [t.payload EXCEPT !.role = "admin"], sig |-> t.sig] : t \in issued}
    \cup {MalformedToken}
AuthHeaders == {<<>>} \cup {<<t>> : t \in PresentableTokens}

---------------------------------------------------------------------------
(* GET / *)
Health ==
    /\ res' = Json("GET /", 200, [ok |-> TRUE, service |-> "Alice Starter API", time |-> now])
    /\ UNCHANGED <<stores, clock, issued>>

(* POST /business/create *)
\* the two seeded entries (the dashes of the source are written "-")
SeedFaqs == << [q |-> "What are your hours?", a |-> "Mon-Sat 9:00-18:00"],
               [q |-> "Do you accept walk-ins?", a |-> "Yes, subject to availability."] >>

BusinessCreate(body) ==
    LET id == uuid("biz", Cardinality(DOMAIN businesses) + 1)
        biz == [name |-> body.name, industry |-> body.industry,
                timezone |-> OrElse(body.timezone, "Africa/Johannesburg")]
    IN  /\ Created < MaxCreated
        /\ businesses' = Put(businesses, id, biz)
        /\ faqs' = Put(faqs, id, SeedFaqs)
        /\ res' = Json("POST /business/create", 200, [businessId |-> id, business |-> biz])
        /\ UNCHANGED <<bookings, leads, staff, attendance, overtime, clock, issued>>

(* POST /staff/login *)
\* a faulty variant, for comparison: the tenant is not compared
CredentialsMatchAnyTenant(x, bid, body) ==
    x.name = body.name /\ x.nationalId = body.nationalId /\ x.pin = body.pin

\* the predicate of staff.find
CredentialsMatch(x, bid, body) ==
    /\ x.businessId = bid
    /\ x.name = body.name
    /\ x.nationalId = body.nationalId
    /\ x.pin = body.pin

\* staff.find(...): <<>> for undefined, else <<the first match>>
FindStaff(bid, body) ==
    LET hits == {i \in 1..Len(staff) : CredentialsMatch(staff[i], bid, body)}
    IN  IF hits = {} THEN <<>>
        ELSE <<staff[CHOOSE i \in hits : \A j \in hits : i <= j]>>

\* the claims the login handler signs
LoginClaims(s, bid) == [staffId |-> s.id, businessId |-> bid, role |-> s.role]

StaffLogin(bid, body) ==
    LET route == "POST /staff/login"
        found == FindStaff(bid, body)
        s == found[1]
        token == jwtSign(LoginClaims(s, bid), JWT_SECRET, clock)
    IN  /\ IF ~requireBiz(bid)
           THEN res' = BadBiz(route) /\ UNCHANGED issued
           ELSE IF found = <<>>
           THEN res' = Unauthorized(route, "Invalid credentials") /\ UNCHANGED issued
           ELSE /\ Cardinality(issued \cup {token}) <= MaxTokens
                /\ issued' = issued \cup {token}
                /\ res' = Json(route, 200,
                               [token |-> token,
                                staff |-> [id |-> s.id, name |-> s.name, role |-> s.role]])
        /\ UNCHANGED <<stores, clock>>

(* POST /staff/create *)
StaffRecord(id, bid, body) ==
    [id |-> id, businessId |-> bid, name |-> body.name, nationalId |-> body.nationalId,
     pin |-> body.pin, role |-> OrElse(body.role, "staff")]

StaffCreate(bid, body) ==
    LET route == "POST /staff/create"
        id == uuid("staff", Len(staff) + 1)
    IN  /\ IF ~requireBiz(bid)
           THEN res' = BadBiz(route) /\ UNCHANGED staff
           ELSE /\ Created < MaxCreated
                /\ staff' = Append(staff, StaffRecord(id, bid, body))
                /\ res' = Json(route, 200, [id |-> id])
        /\ UNCHANGED <<businesses, bookings, leads, attendance, overtime, faqs, clock, issued>>

\* a faulty variant, for comparison: the agenda ignores which staff member a booking is assigned to
AgendaFilterAnyStaff(b, u) ==
    b.businessId = u.businessId /\ b.status # "cancelled"

(* GET /staff/agenda *)
\* the filter of the agenda handler
AgendaFilter(b, u) ==
    b.businessId = u.businessId /\ b.staffId = u.staffId /\ b.status # "cancelled"

StaffAgenda(auth) ==
    LET route == "GET /staff/agenda"
    IN  /\ IF ~requireStaff(auth)
           THEN res' = BadAuth(route, auth)
           ELSE res' = Json(route, 200,
                            [bookings |-> SelectSeq(bookings, LAMBDA b : AgendaFilter(b, user(auth)))])
        /\ UNCHANGED <<stores, clock, issued>>

(* POST /staff/clock-in, POST /staff/clock-out *)
AttendanceEvent(id, u, type) ==
    [id |-> id, staffId |-> u.staffId, businessId |-> u.businessId,
     type |-> type, timestamp |-> now]

ClockInOut(route, type, auth) ==
    /\ IF ~requireStaff(auth)
       THEN res' = BadAuth(route, auth) /\ UNCHANGED attendance
       ELSE /\ Created < MaxCreated
            /\ attendance' = Append(attendance,
                   AttendanceEvent(uuid("attendance", Len(attendance) + 1), user(auth), type))
            /\ res' = Json(route, 200, [ok |-> TRUE])
    /\ UNCHANGED <<businesses, bookings, leads, staff, overtime, faqs, clock, issued>>

ClockIn(auth) == ClockInOut("POST /staff/clock-in", "in", auth)
ClockOut(auth) == ClockInOut("POST /staff/clock-out", "out", auth)

(* POST /staff/overtime *)
OvertimeEntry(id, u, body) ==
    [id |-> id, staffId |-> u.staffId, businessId |-> u.businessId,
     hours |-> body.hours, reason |-> body.reason, status |-> "pending"]

StaffOvertime(auth, body) ==
    LET route == "POST /staff/overtime"
        entry == OvertimeEntry(uuid("overtime", Len(overtime) + 1), user(auth), body)
    IN  /\ IF ~requireStaff(auth)
           THEN res' = BadAuth(route, auth) /\ UNCHANGED overtime
           ELSE /\ Created < MaxCreated
                /\ overtime' = Append(overtime, entry)
                /\ res' = Json(route, 200, entry)
        /\ UNCHANGED <<businesses, bookings, leads, staff, attendance, faqs, clock, issued>>

(* POST /bookings, GET /bookings *)
BookingEntry(id, bid, body) ==
    [id |-> id, businessId |-> bid, clientName |-> body.clientName,
     contact |-> body.contact, service |-> body.service, when |-> body.when,
     staffId |-> OrElse(body.staffId, Null), notes |-> OrElse(body.notes, ""),
     status |-> "confirmed"]

BookingsCreate(bid, body) ==
    LET route == "POST /bookings"
        entry == BookingEntry(uuid("booking", Len(bookings) + 1), bid, body)
    IN  /\ IF ~requireBiz(bid)
           THEN res' = BadBiz(route) /\ UNCHANGED bookings
           ELSE /\ Created < MaxCreated
                /\ bookings' = Append(bookings, entry)
                /\ res' = Json(route, 200, entry)
        /\ UNCHANGED <<businesses, leads, staff, attendance, overtime, faqs, clock, issued>>

\* the filter of GET /bookings
\* a faulty variant, for comparison: the listing returns the bookings of every tenant
BookingsFilterAll(b, bid) == TRUE

BookingsFilter(b, bid) == b.businessId = bid

BookingsList(bid) ==
    LET route == "GET /bookings"
    IN  /\ IF ~requireBiz(bid)
           THEN res' = BadBiz(route)
           ELSE res' = Json(route, 200,
                            [array |-> SelectSeq(bookings, LAMBDA b : BookingsFilter(b, bid))])
        /\ UNCHANGED <<stores, clock, issued>>

(* POST /leads *)
LeadEntry(id, bid, body) ==
    [id |-> id, businessId |-> bid, name |-> body.name, contact |-> body.contact,
     service |-> body.service, budget |-> body.budget, source |-> body.source,
     notes |-> body.notes]

LeadsCreate(bid, body) ==
    LET route == "POST /leads"
        entry == LeadEntry(uuid("lead", Len(leads) + 1), bid, body)
    IN  /\ IF ~requireBiz(bid)
           THEN res' = BadBiz(route) /\ UNCHANGED leads
           ELSE /\ Created < MaxCreated
                /\ leads' = Append(leads, entry)
                /\ res' = Json(route, 200, entry)
        /\ UNCHANGED <<businesses, bookings, staff, attendance, overtime, faqs, clock, issued>>

(* GET /faqs, POST /faqs *)
\* res.json(faqs[bid] || []): an own property is the stored array; a name
\* inherited from Object.prototype is a function, which JSON.stringify
\* turns into no body at all; anything else is undefined, hence [].
FaqsResponse(bid) ==
    IF bid \in DOMAIN faqs THEN [array |-> faqs[bid]]
    ELSE IF bid \in ObjectPrototypeKeys THEN [nobody |-> TRUE]
    ELSE [array |-> <<>>]

FaqsGet(bid) ==
    LET route == "GET /faqs"
    IN  /\ IF ~requireBiz(bid)
           THEN res' = BadBiz(route)
           ELSE res' = Json(route, 200, FaqsResponse(bid))
        /\ UNCHANGED <<stores, clock, issued>>

\* a faulty variant, for comparison: the posted entries are appended to the tenant's list
FaqsMerge(bid, body) ==
    LET items == IF "items" \in DOMAIN body THEN body.items ELSE <<>>
    IN  Put(faqs, bid, IF bid \in DOMAIN faqs THEN faqs[bid] \o items ELSE items)

\* faqs[bid] = req.body.items || []
FaqsReplace(bid, body) ==
    Put(faqs, bid, IF "items" \in DOMAIN body THEN body.items ELSE <<>>)

FaqsPost(bid, body) ==
    LET route == "POST /faqs"
    IN  /\ IF ~requireBiz(bid)
           THEN res' = BadBiz(route) /\ UNCHANGED faqs
           ELSE faqs' = FaqsReplace(bid, body) /\ res' = Json(route, 200, [ok |-> TRUE])
        /\ UNCHANGED <<businesses, bookings, leads, staff, attendance, overtime, clock, issued>>

(* POST /insights/weekly *)
\* const { industry } = businesses[bid]
IndustryOf(bid) == IF bid \in DOMAIN businesses THEN businesses[bid].industry ELSE Undefined

WeeklyPlan(industry) ==
    [weekOf |-> now, industry |-> industry,
     trends |-> <<"Payday promos drive spikes", "Short-form video (15-30s) outperforms",
                  "UGC + before/after posts convert">>,
     suggestedPosts |-> <<
        [platform |-> "Instagram", day |-> "Thu", time |-> "18:00",
         caption |-> "Payday glow-up Book now & save 10%. #PaydaySpecial #" \o industry],
        [platform |-> "TikTok", day |-> "Sat", time |-> "11:00",
         caption |-> "Behind the scenes + quick tips #" \o industry \o "Tips"],
        [platform |-> "Facebook", day |-> "Tue", time |-> "12:30",
         caption |-> "Client story + referral rewards #HappyClients"] >>,
     bestTimes |-> [Instagram |-> <<"18:00">>, TikTok |-> <<"11:00">>, Facebook |-> <<"12:30">>],
     paydayWindows |-> <<"15th", "25th-30th">>,
     forecastNote |-> "Assuming 8% CTR uplift during payday window."]

InsightsWeekly(bid) ==
    LET route == "POST /insights/weekly"
    IN  /\ IF ~requireBiz(bid)
           THEN res' = BadBiz(route)
           ELSE res' = Json(route, 200, WeeklyPlan(IndustryOf(bid)))
        /\ UNCHANGED <<stores, clock, issued>>

(* POST /insights/forecast *)
DefaultBaseline == 10000
DefaultSpend == 1500
\* the lifts 0.12 and 0.05, in hundredths
paydayBoost == 12
trendBoost == 5

\* Math.round(p / q) for q > 0: the nearest integer, halves towards +infinity
MathRound(p, q) == (2 * p + q) \div (2 * q)
Abs(n) == IF n < 0 THEN -n ELSE n

\* Number((p / q).toFixed(2)): a number of hundredths when p / q is finite
\* (rounded to the nearest, halves away from zero); Infinity, -Infinity or
\* NaN when q = 0
ToFixed2(p, q) ==
    IF q = 0
    THEN [kind |-> IF p > 0 THEN "Infinity" ELSE IF p < 0 THEN "-Infinity" ELSE "NaN"]
    ELSE LET m == (200 * Abs(p) + Abs(q)) \div (2 * Abs(q))
         IN  [kind |-> "number", hundredths |-> IF (p < 0) # (q < 0) THEN -m ELSE m]

\* a faulty variant, for comparison: an omitted spend is taken to be 300
SpendOfOther(body) ==
    IF "marketingSpend" \in DOMAIN body THEN body.marketingSpend ELSE 300

\* const { baselineWeeklyRevenue = 10000, marketingSpend = 1500 } = req.body
BaselineOf(body) ==
    IF "baselineWeeklyRevenue" \in DOMAIN body THEN body.baselineWeeklyRevenue
    ELSE DefaultBaseline
SpendOf(body) ==
    IF "marketingSpend" \in DOMAIN body THEN body.marketingSpend ELSE DefaultSpend

\* Math.round(baseline * (1 + paydayBoost + trendBoost))
Projected(baseline) == MathRound(baseline * (100 + paydayBoost + trendBoost), 100)

\* the object handed to res.json
Forecast(body) ==
    LET baselineWeeklyRevenue == BaselineOf(body)
        marketingSpend == SpendOf(body)
        projected == Projected(baselineWeeklyRevenue)
    IN  [baselineWeeklyRevenue |-> baselineWeeklyRevenue,
         projectedWeeklyRevenue |-> projected,
         assumedLifts |-> [paydayBoost |-> paydayBoost, trendBoost |-> trendBoost],
         marketingSpend |-> marketingSpend,
         estimatedROI |-> ToFixed2((projected - baselineWeeklyRevenue) - marketingSpend,
                                   marketingSpend)]

InsightsForecast(bid, body) ==
    LET route == "POST /insights/forecast"
    IN  /\ IF ~requireBiz(bid)
           THEN res' = BadBiz(route)
           ELSE res' = Json(route, 200, Forecast(body))
        /\ UNCHANGED <<stores, clock, issued>>

(* Time passes between requests *)
Tick ==
    /\ clock + ClockStep <= MaxClock
    /\ clock' = clock + ClockStep
    /\ UNCHANGED <<stores, issued, res>>

---------------------------------------------------------------------------
(* The bodies requests carry *)
NoBody == [none |-> Undefined]
BusinessBodies == {[name |-> "Salon", industry |-> "beauty", timezone |-> Undefined]}
StaffBodies ==
    {[name |-> "Jo", nationalId |-> "123", pin |-> "9999", role |-> Undefined],
     [name |-> "Jo", nationalId |-> "123", pin |-> "0000", role |-> "manager"]}
LoginBodies ==
    {[name |-> "Jo", nationalId |-> "123", pin |-> "9999"],
     [name |-> "Jo", nationalId |-> "123", pin |-> "0000"],
     [name |-> "Al", nationalId |-> "123", pin |-> "9999"],
     [name |-> "Jo", nationalId |-> "456", pin |-> "9999"]}
OvertimeBodies == {[hours |-> 2, reason |-> "stocktake"]}
StaffIds == {Undefined} \cup {staff[i].id : i \in 1..Len(staff)}
BookingBodies ==
    {[clientName |-> "Ann", contact |-> "555", service |-> "cut",
      when |-> "2026-01-05T10:00", staffId |-> sid, notes |-> Undefined] : sid \in StaffIds}
LeadBodies ==
    {[name |-> "Bo", contact |-> "556", service |-> "colour", budget |-> "500",
      source |-> "web", notes |-> Undefined]}
NewFaqs == <<[q |-> "Parking?", a |-> "Behind the shop"],
             [q |-> "What are your hours?", a |-> "Mon-Sat 9:00-18:00"]>>
FaqBodies == {NoBody, [items |-> <<>>], [items |-> NewFaqs], [items |-> SubSeq(NewFaqs, 1, 1)]}
Baselines == {10000, 0, 250, 150}
Spends == {1500, 0, 300}
ForecastBodies ==
    {NoBody}
    \cup {[baselineWeeklyRevenue |-> b] : b \in Baselines}
    \cup {[marketingSpend |-> m] : m \in Spends}
    \cup {[baselineWeeklyRevenue |-> b, marketingSpend |-> m] : b \in Baselines, m \in Spends}

---------------------------------------------------------------------------
(* The program: any request at any time *)
Next ==
    \/ Health
    \/ \E body \in BusinessBodies : BusinessCreate(body)
    \/ \E bid \in BizHeaders, body \in LoginBodies : StaffLogin(bid, body)
    \/ \E bid \in BizHeaders, body \in StaffBodies : StaffCreate(bid, body)
    \/ \E auth \in AuthHeaders : StaffAgenda(auth)
    \/ \E auth \in AuthHeaders : ClockIn(auth)
    \/ \E auth \in AuthHeaders : ClockOut(auth)
    \/ \E auth \in AuthHeaders, body \in OvertimeBodies : StaffOvertime(auth, body)
    \/ \E bid \in BizHeaders, body \in BookingBodies : BookingsCreate(bid, body)
    \/ \E bid \in BizHeaders : BookingsList(bid)
    \/ \E bid \in BizHeaders, body \in LeadBodies : LeadsCreate(bid, body)
    \/ \E bid \in BizHeaders : FaqsGet(bid)
    \/ \E bid \in BizHeaders, body \in FaqBodies : FaqsPost(bid, body)
    \/ \E bid \in BizHeaders : InsightsWeekly(bid)
    \/ \E bid \in BizHeaders, body \in ForecastBodies : InsightsForecast(bid, body)
    \/ Tick

Spec == Init /\ [][Next]_vars

---------------------------------------------------------------------------
(* The program restricted to groups of routes, with the request headers    *)
(* and bodies each group needs.                                            *)

\* the insights routes
NextInsights ==
    \/ Health
    \/ \E body \in BusinessBodies : BusinessCreate(body)
    \/ \E bid \in TenantHeaders : InsightsWeekly(bid)
    \/ \E bid \in TenantHeaders, body \in ForecastBodies : InsightsForecast(bid, body)
    \/ Tick

SpecInsights == Init /\ [][NextInsights]_vars

\* staff accounts, login and the session-gated routes, as time passes
NextSessions ==
    \/ \E body \in BusinessBodies : BusinessCreate(body)
    \/ \E bid \in TenantHeaders, body \in LoginBodies : StaffLogin(bid, body)
    \/ \E bid \in TenantHeaders, body \in StaffBodies : StaffCreate(bid, body)
    \/ \E auth \in AuthHeaders : StaffAgenda(auth)
    \/ \E auth \in AuthHeaders : ClockIn(auth)
    \/ \E auth \in AuthHeaders : ClockOut(auth)
    \/ \E auth \in AuthHeaders, body \in OvertimeBodies : StaffOvertime(auth, body)
    \/ Tick

SpecSessions == Init /\ [][NextSessions]_vars

\* the tenant-scoped listings: bookings, agenda and FAQs
TenancyStaffBodies ==
    {[name |-> "Jo", nationalId |-> "123", pin |-> "9999", role |-> Undefined]}
TenancyLoginBodies ==
    {[name |-> "Jo", nationalId |-> "123", pin |-> "9999"],
     [name |-> "Jo", nationalId |-> "123", pin |-> "0000"]}
TenancyFaqBodies == {[items |-> NewFaqs]}

NextTenancy ==
    \/ \E body \in BusinessBodies : BusinessCreate(body)
    \/ \E bid \in TenantHeaders, body \in TenancyLoginBodies : StaffLogin(bid, body)
    \/ \E bid \in TenantHeaders, body \in TenancyStaffBodies : StaffCreate(bid, body)
    \/ \E auth \in AuthHeaders : StaffAgenda(auth)
    \/ \E bid \in TenantHeaders, body \in BookingBodies : BookingsCreate(bid, body)
    \/ \E bid \in TenantHeaders : BookingsList(bid)
    \/ \E bid \in TenantHeaders : FaqsGet(bid)
    \/ \E bid \in TenantHeaders, body \in TenancyFaqBodies : FaqsPost(bid, body)

SpecTenancy == Init /\ [][NextTenancy]_vars

\* the FAQ routes
NextFaqs ==
    \/ \E body \in BusinessBodies : BusinessCreate(body)
    \/ \E bid \in TenantHeaders : FaqsGet(bid)
    \/ \E bid \in TenantHeaders, body \in FaqBodies : FaqsPost(bid, body)
    \/ \E bid \in TenantHeaders, body \in LeadBodies : LeadsCreate(bid, body)

SpecFaqs == Init /\ [][NextFaqs]_vars

\* every route that writes a store
NextStores ==
    \/ \E body \in BusinessBodies : BusinessCreate(body)
    \/ \E bid \in TenantHeaders, body \in TenancyLoginBodies : StaffLogin(bid, body)
    \/ \E bid \in TenantHeaders, body \in TenancyStaffBodies : StaffCreate(bid, body)
    \/ \E auth \in AuthHeaders : ClockIn(auth)
    \/ \E auth \in AuthHeaders : ClockOut(auth)
    \/ \E auth \in AuthHeaders, body \in OvertimeBodies : StaffOvertime(auth, body)
    \/ \E bid \in TenantHeaders, body \in BookingBodies : BookingsCreate(bid, body)
    \/ \E bid \in TenantHeaders, body \in LeadBodies : LeadsCreate(bid, body)
    \/ \E bid \in TenantHeaders, body \in TenancyFaqBodies : FaqsPost(bid, body)

SpecStores == Init /\ [][NextStores]_vars

\* every gated route, with any string as X-Business-Id
NextGates ==
    \/ \E body \in BusinessBodies : BusinessCreate(body)
    \/ \E bid \in BizHeaders, body \in TenancyLoginBodies : StaffLogin(bid, body)
    \/ \E bid \in BizHeaders, body \in TenancyStaffBodies : StaffCreate(bid, body)
    \/ \E auth \in AuthHeaders : StaffAgenda(auth)
    \/ \E auth \in AuthHeaders : ClockIn(auth)
    \/ \E auth \in AuthHeaders : ClockOut(auth)
    \/ \E auth \in AuthHeaders, body \in OvertimeBodies : StaffOvertime(auth, body)
    \/ \E bid \in BizHeaders, body \in BookingBodies : BookingsCreate(bid, body)
    \/ \E bid \in BizHeaders : BookingsList(bid)
    \/ \E bid \in BizHeaders, body \in LeadBodies : LeadsCreate(bid, body)
    \/ \E bid \in BizHeaders : FaqsGet(bid)
    \/ \E bid \in BizHeaders, body \in TenancyFaqBodies : FaqsPost(bid, body)
    \/ \E bid \in BizHeaders : InsightsWeekly(bid)
    \/ \E bid \in BizHeaders, body \in {NoBody} : InsightsForecast(bid, body)

SpecGates == Init /\ [][NextGates]_vars

---------------------------------------------------------------------------
(* Vocabulary of the properties *)
Range(seq) == {seq[i] : i \in 1..Len(seq)}
IsPrefix(a, b) == Len(a) <= Len(b) /\ SubSeq(b, 1, Len(a)) = a

\* a request to one of the session-gated routes carrying `auth`
SessionStep(auth) ==
    \/ StaffAgenda(auth)
    \/ ClockIn(auth)
    \/ ClockOut(auth)
    \/ \E body \in OvertimeBodies : StaffOvertime(auth, body)

\* a request to one of the tenant-gated routes carrying `bid`
TenantStep(bid) ==
    \/ \E body \in LoginBodies : StaffLogin(bid, body)
    \/ \E body \in StaffBodies : StaffCreate(bid, body)
    \/ \E body \in BookingBodies : BookingsCreate(bid, body)
    \/ BookingsList(bid)
    \/ \E body \in LeadBodies : LeadsCreate(bid, body)
    \/ FaqsGet(bid)
    \/ \E body \in FaqBodies : FaqsPost(bid, body)
    \/ InsightsWeekly(bid)
    \/ \E body \in ForecastBodies : InsightsForecast(bid, body)

\* the staff store holds a record of tenant T with exactly these credentials
HasRecord(T, body) ==
    \E i \in 1..Len(staff) :
        /\ staff[i].businessId = T
        /\ staff[i].name = body.name
        /\ staff[i].nationalId = body.nationalId
        /\ staff[i].pin = body.pin

---------------------------------------------------------------------------
\* C2 - Login correctness: POST /staff/login for tenant T with (name,
\* nationalId, pin) answers 200 exactly when the staff store holds a record
\* of tenant T with equal name, nationalId and pin; otherwise it answers 401.
LoginCorrect ==
    [][ \A T \in TenantHeaders, body \in LoginBodies :
            StaffLogin(T, body) =>
                /\ (res'.status = 200) <=> HasRecord(T, body)
                /\ ~HasRecord(T, body) => res'.status = 401 ]_vars

\* a login succeeded for one tenant while another tenant holds a staff record
LoginCorrectWitness ==
    /\ res.route = "POST /staff/login"
    /\ res.status = 200
    /\ \E i, j \in 1..Len(staff) :
          /\ staff[i].businessId # staff[j].businessId
          /\ staff[i].pin = staff[j].pin

\* C3 - Session roundtrip: the token a successful login returns passes the
\* staff gate and carries the id and role of the matched staff record and
\* the tenant of the login request; a request whose token is signed with
\* another secret is answered 401 and changes no store.
SessionRoundtrip ==
    [][ /\ \A T \in TenantHeaders, body \in LoginBodies :
              (StaffLogin(T, body) /\ res'.status = 200) =>
                  LET token == res'.body.token
                      u == user(<<token>>)
                  IN  /\ requireStaff(<<token>>)
                      /\ u.businessId = T
                      /\ \E i \in 1..Len(staff) :
                            /\ staff[i].id = res'.body.staff.id
                            /\ staff[i].businessId = T
                            /\ staff[i].name = body.name
                            /\ staff[i].pin = body.pin
                            /\ u.staffId = staff[i].id
                            /\ u.role = staff[i].role
        /\ \A auth \in AuthHeaders :
              ( /\ auth # <<>>
                /\ "payload" \in DOMAIN auth[1]
                /\ auth[1].sig = HS256(auth[1].payload, OtherSecret)
                /\ SessionStep(auth) ) =>
                  res'.status = 401 /\ UNCHANGED stores ]_vars

\* a manager logged in, and the session was then used to clock in
SessionRoundtripWitness ==
    /\ \E t \in issued : t.payload.role = "manager"
    /\ Len(attendance) = 1
    /\ \E i \in 1..Len(staff) :
          /\ staff[i].id = attendance[1].staffId
          /\ staff[i].businessId = attendance[1].businessId
          /\ staff[i].role = "manager"

\* C5 - Token lifetime: a token is issued with the time of the login; a
\* request to a session-gated route with an issued token is served (200)
\* at every time less than 8 hours after issuance, whatever was requested
\* in between, and answered 401 without touching a store from then on.
TokenLifetime ==
    [][ /\ \A T \in TenantHeaders, body \in LoginBodies :
              (StaffLogin(T, body) /\ res'.status = 200) =>
                  res'.body.token.payload.iat = clock
        /\ \A t \in issued :
              SessionStep(<<t>>) =>
                  IF clock < t.payload.iat + 8
                  THEN res'.status = 200
                  ELSE res'.status = 401 /\ UNCHANGED stores ]_vars

\* a token was used some hours after the login, and 8 hours after the login
\* a request is refused for its token
TokenLifetimeWitness ==
    \E t \in issued :
        /\ Len(attendance) = 1
        /\ attendance[1].staffId = t.payload.staffId
        /\ attendance[1].timestamp > t.payload.iat
        /\ clock >= t.payload.iat + 8
        /\ res.route = "GET /staff/agenda"
        /\ res.status = 401
        /\ res.body.error = "Invalid token"

\* C4 - Gates short-circuit (the claim as stated): a request to a gated
\* route whose tenant header is absent or is not a registered business id,
\* or whose Authorization header is absent or fails verification, is
\* answered 401 and leaves every store unchanged.
GatesShortCircuit ==
    [][ /\ \A bid \in BizHeaders :
              ((bid = Undefined \/ bid \notin DOMAIN businesses) /\ TenantStep(bid)) =>
                  res'.status = 401 /\ UNCHANGED stores
        /\ \A auth \in AuthHeaders :
              ((auth = <<>> \/ ~jwtVerifyOk(auth[1], JWT_SECRET, clock)) /\ SessionStep(auth)) =>
                  res'.status = 401 /\ UNCHANGED stores ]_vars

\* C1 - Tenant isolation: a booking is stored under the tenant of the
\* request that created it; GET /bookings for tenant B and GET /staff/agenda
\* with a session issued for B return only bookings stored under B; GET /faqs
\* for B returns the list held for B, and the list held for B is changed only
\* by a POST /faqs for B.  So nothing created or replaced under a tenant A is
\* returned by a listing scoped to another tenant B.
TenantIsolation ==
    [][ /\ \A A \in TenantHeaders, body \in BookingBodies :
              (BookingsCreate(A, body) /\ res'.status = 200) =>
                  /\ bookings' = Append(bookings, bookings'[Len(bookings')])
                  /\ bookings'[Len(bookings')].businessId = A
        /\ \A B \in TenantHeaders :
              (BookingsList(B) /\ res'.status = 200) =>
                  \A k \in 1..Len(res'.body.array) :
                      /\ res'.body.array[k] \in Range(bookings)
                      /\ res'.body.array[k].businessId = B
        /\ \A B \in TenantHeaders, body \in TenancyLoginBodies :
              (StaffLogin(B, body) /\ res'.status = 200) =>
                  res'.body.token.payload.businessId = B
        /\ \A t \in issued :
              (StaffAgenda(<<t>>) /\ res'.status = 200) =>
                  \A k \in 1..Len(res'.body.bookings) :
                      /\ res'.body.bookings[k] \in Range(bookings)
                      /\ res'.body.bookings[k].businessId = t.payload.businessId
        /\ \A B \in TenantHeaders :
              (FaqsGet(B) /\ res'.status = 200) => res'.body = [array |-> faqs[B]]
        /\ \A B \in DOMAIN faqs :
              faqs'[B] # faqs[B] => \E body \in TenancyFaqBodies : FaqsPost(B, body) ]_vars

\* two tenants hold a booking each and a new FAQ list was posted for one of
\* them only; the listing for one tenant returned one booking
TenantIsolationWitness ==
    /\ res.route = "GET /bookings"
    /\ res.status = 200
    /\ Len(res.body.array) = 1
    /\ \E i, j \in 1..Len(bookings) : bookings[i].businessId # bookings[j].businessId
    /\ \E A, B \in DOMAIN faqs : faqs[A] = NewFaqs /\ faqs[B] = SeedFaqs

\* C6 - Agenda content: GET /staff/agenda with the session of staff member
\* S of tenant T is answered 200 with exactly the stored bookings whose
\* businessId is T, whose staffId is S's id and whose status is not
\* "cancelled", each once and in the order of the store.
AgendaContent ==
    [][ \A t \in issued :
            (StaffAgenda(<<t>>) /\ clock < t.payload.exp) =>
                LET out == res'.body.bookings
                    T == t.payload.businessId
                    S == t.payload.staffId
                    pos(b) == CHOOSE p \in 1..Len(bookings) : bookings[p] = b
                IN  /\ res'.status = 200
                    /\ \E i \in 1..Len(staff) : staff[i].id = S /\ staff[i].businessId = T
                    /\ Range(out) = {b \in Range(bookings) :
                                        b.businessId = T /\ b.staffId = S /\ b.status # "cancelled"}
                    /\ \A i, j \in 1..Len(out) : i < j => pos(out[i]) < pos(out[j]) ]_vars

\* the agenda returned the bookings assigned to the staff member, and not
\* every stored booking
AgendaContentWitness ==
    /\ res.route = "GET /staff/agenda"
    /\ res.status = 200
    /\ Len(res.body.bookings) >= 1
    /\ Len(bookings) > Len(res.body.bookings)
    /\ \E i \in 1..Len(staff) : \A k \in 1..Len(res.body.bookings) :
          res.body.bookings[k].staffId = staff[i].id

\* C7 - FAQ replace semantics: a POST /faqs for tenant T with list L makes L
\* the list held for T and leaves the list of every other tenant as it was;
\* GET /faqs for T returns exactly the list held for T; and the list held
\* for T changes only by a POST /faqs for T.
FaqReplace ==
    [][ /\ \A T \in TenantHeaders, body \in FaqBodies :
              (FaqsPost(T, body) /\ res'.status = 200) =>
                  /\ DOMAIN faqs' = DOMAIN faqs
                  /\ faqs'[T] = (IF "items" \in DOMAIN body THEN body.items ELSE <<>>)
                  /\ \A U \in DOMAIN faqs \ {T} : faqs'[U] = faqs[U]
        /\ \A T \in TenantHeaders :
              (FaqsGet(T) /\ res'.status = 200) => res'.body = [array |-> faqs[T]]
        /\ \A T \in DOMAIN faqs :
              faqs'[T] # faqs[T] => \E body \in FaqBodies : FaqsPost(T, body) ]_vars

\* GET /faqs returned a posted list that drops a seeded entry, while another
\* tenant still has the seeded list
FaqReplaceWitness ==
    /\ res.route = "GET /faqs"
    /\ res.status = 200
    /\ res.body = [array |-> NewFaqs]
    /\ \E T, U \in DOMAIN faqs : faqs[T] = NewFaqs /\ faqs[U] = SeedFaqs

\* C8 - Forecast zero-spend handling (the claim as stated): a forecast
\* answered for marketingSpend = 0 never carries Infinity, -Infinity or NaN
\* as estimatedROI.
ZeroSpendHandled ==
    (res.route = "POST /insights/forecast" /\ res.status = 200 /\ res.body.marketingSpend = 0)
        => res.body.estimatedROI.kind = "number"

\* C9 - Forecast defaults: POST /insights/forecast without a body is answered
\* as the call with baseline 10000 and spend 1500 is: baseline 10000,
\* projected revenue 11700, spend 1500 and ROI 0.13.
ForecastDefaults ==
    [][ \A T \in TenantHeaders :
            (InsightsForecast(T, NoBody) /\ res'.status = 200) =>
                /\ res'.body.baselineWeeklyRevenue = 10000
                /\ res'.body.marketingSpend = 1500
                /\ res'.body.projectedWeeklyRevenue = 11700
                /\ res'.body.estimatedROI = [kind |-> "number", hundredths |-> 13]
                /\ res'.body = Forecast([baselineWeeklyRevenue |-> 10000,
                                         marketingSpend |-> 1500]) ]_vars

\* a forecast was answered with the default figures
ForecastDefaultsWitness ==
    /\ res.route = "POST /insights/forecast"
    /\ res.status = 200
    /\ res.body.baselineWeeklyRevenue = 10000
    /\ res.body.projectedWeeklyRevenue = 11700
    /\ res.body.estimatedROI = [kind |-> "number", hundredths |-> 13]

\* the identifiers held by the stores
StoredIds ==
    DOMAIN businesses
    \cup {staff[i].id : i \in 1..Len(staff)}
    \cup {bookings[i].id : i \in 1..Len(bookings)}
    \cup {leads[i].id : i \in 1..Len(leads)}
    \cup {attendance[i].id : i \in 1..Len(attendance)}
    \cup {overtime[i].id : i \in 1..Len(overtime)}

UniqueIds == Cardinality(StoredIds) = Created

AppendOnly ==
    /\ DOMAIN businesses \subseteq DOMAIN businesses'
    /\ \A id \in DOMAIN businesses : businesses'[id] = businesses[id]
    /\ IsPrefix(staff, staff')
    /\ IsPrefix(bookings, bookings')
    /\ IsPrefix(leads, leads')
    /\ IsPrefix(attendance, attendance')
    /\ IsPrefix(overtime, overtime')

\* C10 - Append-only stores with unique ids: in every reachable state the ids
\* of businesses, staff, bookings, leads, attendance events and overtime
\* requests are pairwise distinct, and every step keeps each stored entity
\* in its store with the same fields at the same position.
AppendOnlyUniqueIds == []UniqueIds /\ [][AppendOnly]_vars

\* the stores hold a business, a staff member, an attendance event and an
\* overtime request
AppendOnlyUniqueIdsWitness ==
    /\ Cardinality(DOMAIN businesses) = 1
    /\ Len(staff) = 1
    /\ Len(attendance) = 1
    /\ Len(overtime) = 1

====
